---- MODULE Spec2Model ----
(***************************************************************************)
(* A model of the chat indexer: the parser cascade of                      *)
(* main/services/parser.py, the label generator of                         *)
(* main/services/labeler.py and the generation run of main/views.py.       *)
(*                                                                         *)
(* Text is abstract.  A string is a record [pad, len, src]: pad is the     *)
(* number of leading and trailing whitespace characters, len the number of *)
(* characters between them (0 for a blank string) and src the identity of  *)
(* the source pieces the characters come from.  Python's len() is pad+len  *)
(* and str.strip() sets pad to 0.                                          *)
(***************************************************************************)
EXTENDS Naturals, Sequences, FiniteSets

VARIABLES
    content,    \* the raw input of one parse: its decoded shape and its paragraphs
    entry,      \* the entry point called: "parse_chat" or "parse_chat_with_metadata"
    ppc,        \* position in the cascade: "idle", "json", "ai", "fallback", "returned", "raised"
    stages,     \* the stages run so far, in order
    sessions,   \* the turn list returned by the parse
    meta,       \* the title and platform returned by parse_chat_with_metadata
    fb,         \* _parse_fallback's loop state: i, order, sessions and the paragraphs
    fbpc,       \* position in _parse_fallback: "idle", "loop", "done"
    vin,        \* the turn list handed to validate_parsed_sessions
    vout,       \* its result: [called, ok, msg]
    envKey,     \* GOOGLE_API_KEY is set in os.environ
    fileKey,    \* GOOGLE_API_KEY is set in env/gemini_api_key.env
    lin,        \* generate_label's arguments: the lengths of question and answer
    lpc,        \* position in generate_label
    prompt,     \* the local variable prompt: NoPrompt while unassigned
    excRate,    \* the caught exception's text names ResourceExhausted or 429
    ltrace,     \* what generate_label has done so far, in order
    label,      \* the string generate_label returns
    rpc,        \* position of event_stream: "idle" when no request is being served
    status,     \* document.status
    error_message,  \* document.error_message
    db,         \* the document's Session rows, in creation order
    idx,        \* the label loop's i, 1-based
    events,     \* the types of the events the current run has yielded
    runs,       \* requests served so far
    rlog,       \* the steps the current run has taken, in order
    batch,      \* generate_labels_batch: its argument, its position and labels
    bpc,        \* position in generate_labels_batch
    prev,       \* the result of an earlier parse of the same content
    reqs,       \* the requests being served at the same time, each with its locals
    table,      \* the Session rows of the document, each with its primary key
    inflight,   \* the provider calls awaiting their answer
    calls       \* the provider calls made for the document, in order

parseVars == <<content, entry, ppc, stages, sessions, meta>>
fbVars == <<fb, fbpc>>
valVars == <<vin, vout>>
envVars == <<envKey, fileKey>>
labelVars == <<lin, lpc, prompt, excRate, ltrace, label>>
runVars == <<rpc, status, error_message, db, idx, events, runs, rlog>>
batchVars == <<batch, bpc>>
reVars == <<prev>>
concVars == <<reqs, table, inflight, calls>>
vars == <<content, entry, ppc, stages, sessions, meta, fb, fbpc, vin, vout,
          envKey, fileKey, lin, lpc, prompt, excRate, ltrace, label,
          rpc, status, error_message, db, idx, events, runs, rlog,
          batch, bpc, prev, reqs, table, inflight, calls>>

---------------------------------------------------------------------------
(* Bounds of the model.                                                    *)
MaxParas == 4       \* paragraphs of a plain-text input
MaxItems == 2       \* elements of a structured input's array
MaxTurns == 3       \* turns of a list handed to the validation gate
MaxRuns == 2        \* requests for the index of one document
MaxBatch == 3       \* turns of a list handed to generate_labels_batch
MaxRequests == 2    \* requests for one document served at the same time

(* Program constants.                                                      *)
QuestionMaxLen == 500       \* len(current) < 500
AnswerMinLen == 200         \* len(next_para) > 200
ContinuationMinLen == 300   \* len(paragraphs[j]) > 300
max_q_len == 500            \* question[:max_q_len] + "..."
max_a_len == 1000           \* answer[:max_a_len] + "..."
MaxLabelLen == 100          \* if len(label) > 100: label = label[:100]
SentinelLen == 25           \* len("Session (labeling failed)")
LabelFieldMax == 255        \* label = models.CharField(max_length=255, ...)

---------------------------------------------------------------------------
(* Strings.                                                                *)
Text(pad, len, src) == [pad |-> pad, len |-> len, src |-> src]
EmptyText == Text(0, 0, <<>>)
\* len(s)
pylen(t) == t.pad + t.len
\* s.strip()
strip(t) == [t EXCEPT !.pad = 0]
\* bool(s)
truthy(t) == pylen(t) > 0

ParsedSession(order, question, answer) ==
    [order |-> order, question |-> question, answer |-> answer]

---------------------------------------------------------------------------
(* Structured input.  A decoded value of a "question" or "answer" key is   *)
(* absent, a string, or something that is not a string (a number, null, a  *)
(* list); an array element is an object or something else.                 *)
Absent == [kind |-> "absent", text |-> EmptyText]
NonStr == [kind |-> "nonstr", text |-> EmptyText]
Str(t) == [kind |-> "str", text |-> t]

\* item.get(key, ''): the default '' for a missing key
get(v) == IF v.kind = "absent" THEN EmptyText ELSE v.text

\* item.get('question', '').strip() raises AttributeError when item is not an
\* object or the value has no strip()
ItemRaises(item) ==
    \/ ~item.obj
    \/ item.question.kind = "nonstr"
    \/ item.answer.kind = "nonstr"

ItemsRaise(items) == \E i \in 1..Len(items) : ItemRaises(items[i])

\* for i, item in enumerate(items, 1): ... if question and answer:
\*     sessions.append(ParsedSession(order=i, ...))
RECURSIVE CollectSessions(_, _)
CollectSessions(items, i) ==
    IF i > Len(items) THEN <<>>
    ELSE LET question == strip(get(items[i].question))
             answer == strip(get(items[i].answer))
         IN (IF truthy(question) /\ truthy(answer)
             THEN <<ParsedSession(i, question, answer)>>
             ELSE <<>>) \o CollectSessions(items, i + 1)

None == [none |-> TRUE, raised |-> FALSE, sessions |-> <<>>,
         title |-> "", platform |-> "unknown"]
Raised == [none |-> TRUE, raised |-> TRUE, sessions |-> <<>>,
           title |-> "", platform |-> "unknown"]
ParseResult(s, title, platform) ==
    [none |-> FALSE, raised |-> FALSE, sessions |-> s,
     title |-> title, platform |-> platform]

\* the structured pre-parser returning an object's turns without its title
\* and platform
ParseJsonDropsMeta(c) ==
    CASE c.shape = "text" -> None
      [] c.shape = "badjson" -> None
      [] c.shape = "list" ->
            IF ItemsRaise(c.items) THEN Raised
            ELSE ParseResult(CollectSessions(c.items, 1), "", "unknown")
      [] c.shape = "dict" ->
            IF c.sessKind = "nonarray" THEN Raised
            ELSE LET raw_sessions == IF c.sessKind = "absent" THEN <<>> ELSE c.items
                 IN IF ItemsRaise(raw_sessions) THEN Raised
                    ELSE LET s == CollectSessions(raw_sessions, 1)
                         IN IF s # <<>>
                            THEN ParseResult(s, "", "unknown")
                            ELSE None

\* The structured pre-parser.  c.shape is the outcome of the startswith test
\* and of json.loads on the stripped content: "text" (neither '{' nor '['),
\* "badjson" (JSONDecodeError), "list" or "dict".
_parse_json_format(c) ==
    CASE c.shape = "text" -> None
      [] c.shape = "badjson" -> None
      [] c.shape = "list" ->
            IF ItemsRaise(c.items) THEN Raised
            ELSE ParseResult(CollectSessions(c.items, 1), "", "unknown")
      [] c.shape = "dict" ->
            \* enumerate() of a number or null raises TypeError
            IF c.sessKind = "nonarray" THEN Raised
            ELSE LET raw_sessions == IF c.sessKind = "absent" THEN <<>> ELSE c.items
                 IN IF ItemsRaise(raw_sessions) THEN Raised
                    ELSE LET s == CollectSessions(raw_sessions, 1)
                         IN IF s # <<>>
                            THEN ParseResult(s, c.title, c.platform)
                            ELSE None

---------------------------------------------------------------------------
(* The AI stage.  The environment supplies the key and the provider's      *)
(* answer: an error (no network, text that is not JSON, a value that       *)
(* cannot be iterated) or an array of elements.                            *)
_parse_with_ai(key, resp) ==
    IF ~key THEN <<>>
    ELSE IF resp.error THEN <<>>
    ELSE IF ItemsRaise(resp.items) THEN <<>>    \* except Exception: return []
    ELSE CollectSessions(resp.items, 1)

---------------------------------------------------------------------------
(* The heuristic fallback.                                                 *)

\* paragraphs = [p.strip() for p in re.split(...) if p.strip()]
RECURSIVE Paragraphs(_)
Paragraphs(raw) ==
    IF raw = <<>> THEN <<>>
    ELSE (IF truthy(strip(Head(raw))) THEN <<strip(Head(raw))>> ELSE <<>>)
         \o Paragraphs(Tail(raw))

\* while j < len(paragraphs) and len(paragraphs[j]) > 300: j += 1
\* (j is Python's 0-based index; paragraphs[j] is P[j + 1])
RECURSIVE AnswerEnd(_, _)
AnswerEnd(P, j) ==
    IF j < Len(P) /\ pylen(P[j + 1]) > ContinuationMinLen
    THEN AnswerEnd(P, j + 1)
    ELSE j

\* '\n\n'.join(parts)
RECURSIVE Join(_)
Join(parts) ==
    IF Len(parts) = 1 THEN Head(parts)
    ELSE LET rest == Join(Tail(parts))
         IN Text(0, pylen(Head(parts)) + 2 + pylen(rest), Head(parts).src \o rest.src)

FbStart(P) == [paras |-> P, i |-> 0, order |-> 1, sessions |-> <<>>]

\* while i < len(paragraphs) - 1
FbRunning(st) == st.i + 1 < Len(st.paras)

\* FbStep going on from the last paragraph of the answer: i = j - 1
FbStepReusesAnswer(st) ==
    LET P == st.paras
        current == P[st.i + 1]
        next_para == P[st.i + 2]
    IN IF pylen(current) < QuestionMaxLen /\ pylen(next_para) > AnswerMinLen
       THEN LET j == AnswerEnd(P, st.i + 2)
            IN [st EXCEPT !.sessions = Append(@, ParsedSession(st.order, current,
                                                   Join(SubSeq(P, st.i + 2, j)))),
                          !.order = @ + 1,
                          !.i = j - 1]
       ELSE [st EXCEPT !.i = @ + 1]

\* FbStep with the answer test off by one: len(next_para) >= 200
FbStepAtLeast(st) ==
    LET P == st.paras
        current == P[st.i + 1]
        next_para == P[st.i + 2]
    IN IF pylen(current) < QuestionMaxLen /\ pylen(next_para) >= AnswerMinLen
       THEN LET j == AnswerEnd(P, st.i + 2)
            IN [st EXCEPT !.sessions = Append(@, ParsedSession(st.order, current,
                                                   Join(SubSeq(P, st.i + 2, j)))),
                          !.order = @ + 1,
                          !.i = j]
       ELSE [st EXCEPT !.i = @ + 1]

\* one iteration of the loop
FbStep(st) ==
    LET P == st.paras
        current == P[st.i + 1]
        next_para == P[st.i + 2]
    IN IF pylen(current) < QuestionMaxLen /\ pylen(next_para) > AnswerMinLen
       THEN LET j == AnswerEnd(P, st.i + 2)
            IN [st EXCEPT !.sessions = Append(@, ParsedSession(st.order, current,
                                                   Join(SubSeq(P, st.i + 2, j)))),
                          !.order = @ + 1,
                          !.i = j]
       ELSE [st EXCEPT !.i = @ + 1]

RECURSIVE FbRun(_)
FbRun(st) == IF FbRunning(st) THEN FbRun(FbStep(st)) ELSE st

_parse_fallback(c) == FbRun(FbStart(Paragraphs(c.paras))).sessions

---------------------------------------------------------------------------
(* The validation gate.                                                    *)
\* the gate rejecting a list as soon as one question is empty
ValidateAnyEmpty(s) ==
    IF s = <<>>
    THEN [ok |-> FALSE, msg |-> "No Q&A sessions found"]
    ELSE IF \E k \in 1..Len(s) : ~truthy(s[k].question)
         THEN [ok |-> FALSE, msg |-> "All questions are empty"]
         ELSE [ok |-> TRUE, msg |-> ""]

validate_parsed_sessions(s) ==
    IF s = <<>>
    THEN [ok |-> FALSE, msg |-> "No Q&A sessions found"]
    ELSE LET empty_questions == Cardinality({k \in 1..Len(s) : ~truthy(s[k].question)})
         IN IF empty_questions = Len(s)
            THEN [ok |-> FALSE, msg |-> "All questions are empty"]
            ELSE [ok |-> TRUE, msg |-> ""]

---------------------------------------------------------------------------
(* Inputs.                                                                 *)

\* A raw piece of a text between two blank-line separators: k is its position.
Para(k, pad, len) == Text(pad, len, <<k>>)

\* Paragraph lengths on both sides of each threshold of _parse_fallback, and
\* two padded pieces whose stripped length is on the other side of one.
ParaChoices ==
    {Text(0, n, <<>>) : n \in {50, 200, 201, 300, 301, 499, 500}}
        \cup {Text(1, 200, <<>>), Text(1, 499, <<>>)}

\* re.split of an empty content gives one empty piece
EmptyLayout == <<Para(1, 0, 0)>>

\* the pieces f chooses, each at its position
Layout(f, n) == [k \in 1..n |-> Para(k, f[k].pad, f[k].len)]

\* Array elements: something that is not an object, or an object whose
\* question and answer are absent, not a string, blank or padded text.
ValKinds == {"absent", "nonstr", "blank", "padded"}
Val(kind, k) ==
    CASE kind = "absent" -> Absent
      [] kind = "nonstr" -> NonStr
      [] kind = "blank" -> Str(Text(1, 0, <<k>>))
      [] kind = "padded" -> Str(Text(1, 1, <<k>>))
ItemChoices ==
    {[obj |-> FALSE, q |-> "absent", a |-> "absent"]}
        \cup {[obj |-> TRUE, q |-> q, a |-> a] : q \in ValKinds, a \in ValKinds}
Item(ch, k) == [obj |-> ch.obj, question |-> Val(ch.q, k), answer |-> Val(ch.a, k)]
\* the elements f chooses, each at its position
ItemSeq(f, n) == [k \in 1..n |-> Item(f[k], k)]

Good(k) == [obj |-> TRUE, question |-> Str(Text(1, 1, <<k>>)),
            answer |-> Str(Text(1, 1, <<k>>))]
Dropped(k) == [obj |-> TRUE, question |-> Str(Text(1, 0, <<k>>)),
               answer |-> Str(Text(1, 1, <<k>>))]
NotObject == [obj |-> FALSE, question |-> Absent, answer |-> Absent]

TextContent(shape, paras, askers) ==
    [shape |-> shape, items |-> <<>>, sessKind |-> "absent", title |-> "",
     platform |-> "unknown", paras |-> paras, askers |-> askers]
ListContent(items, paras) ==
    [shape |-> "list", items |-> items, sessKind |-> "absent", title |-> "",
     platform |-> "unknown", paras |-> paras, askers |-> 0]
DictContent(sessKind, items, title, platform, paras) ==
    [shape |-> "dict", items |-> items, sessKind |-> sessKind, title |-> title,
     platform |-> platform, paras |-> paras, askers |-> 0]

\* What the provider of the AI stage may answer.
AiResponses ==
    {[error |-> TRUE, items |-> <<>>]}
        \cup {[error |-> FALSE, items |-> s] :
                s \in {<<>>, <<Good(1)>>, <<Dropped(1), Good(2)>>,
                       <<Good(1), Good(2)>>, <<NotObject>>,
                       <<Good(1), [Good(2) EXCEPT !.answer = NonStr]>>}}

\* Texts of the cascade: a single short paragraph ("Human: hi\nAssistant:
\* hello there"), a short paragraph before a long one, four short ones, and a
\* question with a two-paragraph answer followed by a second exchange.
CascadeLayouts ==
    {EmptyLayout,
     <<Para(1, 0, 50)>>,
     <<Para(1, 0, 50), Para(2, 1, 301)>>,
     <<Para(1, 0, 50), Para(2, 0, 50), Para(3, 0, 50), Para(4, 0, 50)>>,
     <<Para(1, 0, 50), Para(2, 0, 201), Para(3, 0, 301), Para(4, 0, 50), Para(5, 0, 301)>>}

\* A structured text on one line, or with a blank line after its opening
\* bracket and the rest, long, in a second paragraph.
JsonLayouts == {<<Para(1, 0, 50)>>, <<Para(1, 0, 1), Para(2, 0, 301)>>}

AskerCounts == 0..2

Metas == {[title |-> "", platform |-> "unknown"],
          [title |-> "My chat", platform |-> "claude"]}

\* The inputs of the cascade: text and undecodable text of CascadeLayouts,
\* arrays and objects of up to MaxItems elements, and objects whose sessions
\* field is missing or not an array.
IsCascadeContent(c) ==
    \/ \E sh \in {"text", "badjson"}, p \in CascadeLayouts, n \in AskerCounts :
            c = TextContent(sh, p, n)
    \/ \E n \in 0..MaxItems : \E f \in [1..n -> ItemChoices] : \E p \in JsonLayouts :
            \/ c = ListContent(ItemSeq(f, n), p)
            \/ \E m \in Metas : c = DictContent("array", ItemSeq(f, n), m.title, m.platform, p)
    \/ \E k \in {"absent", "nonarray"}, p \in JsonLayouts :
            c = DictContent(k, <<>>, "My chat", "claude", p)

\* The inputs of _parse_fallback: the empty text and every sequence of up to
\* MaxParas pieces of ParaChoices.
IsFallbackContent(c) ==
    \/ c = TextContent("text", EmptyLayout, 0)
    \/ \E n \in 1..MaxParas : \E f \in [1..n -> ParaChoices] :
            c = TextContent("text", Layout(f, n), 0)

NoMeta == [title |-> "", platform |-> "unknown"]
NoFb == FbStart(<<>>)
NoVout == [called |-> FALSE, ok |-> FALSE, msg |-> ""]
NoContent == TextContent("text", EmptyLayout, 0)

---------------------------------------------------------------------------
(* The cascade of parse_chat and parse_chat_with_metadata, one stage a     *)
(* step.                                                                   *)

\* result = _parse_json_format(content); if result: return ...
StageJson ==
    /\ ppc = "json"
    /\ LET result == _parse_json_format(content)
       IN /\ stages' = Append(stages, "json")
          /\ IF result.raised
             THEN /\ ppc' = "raised"
                  /\ UNCHANGED <<sessions, meta>>
             ELSE IF ~result.none
             THEN /\ ppc' = "returned"
                  /\ sessions' = result.sessions
                  /\ meta' = IF entry = "parse_chat_with_metadata"
                             THEN [title |-> result.title, platform |-> result.platform]
                             ELSE NoMeta
             ELSE /\ ppc' = "ai"
                  /\ UNCHANGED <<sessions, meta>>
    /\ UNCHANGED <<content, entry>>

\* sessions = _parse_with_ai(content); if sessions: return sessions
StageAi(key, responses) ==
    /\ ppc = "ai"
    /\ \E resp \in responses :
         LET s == _parse_with_ai(key, resp)
         IN /\ stages' = Append(stages, "ai")
            /\ IF s # <<>>
               THEN /\ ppc' = "returned"
                    /\ sessions' = s
               ELSE /\ ppc' = "fallback"
                    /\ UNCHANGED sessions
    /\ UNCHANGED <<content, entry, meta>>

\* return _parse_fallback(content)
StageFallback ==
    /\ ppc = "fallback"
    /\ stages' = Append(stages, "fallback")
    /\ sessions' = _parse_fallback(content)
    /\ ppc' = "returned"
    /\ UNCHANGED <<content, entry, meta>>

---------------------------------------------------------------------------
(* _parse_fallback, one loop iteration a step.                             *)
FallbackIterate ==
    /\ fbpc = "loop"
    /\ FbRunning(fb)
    /\ fb' = FbStep(fb)
    /\ UNCHANGED fbpc

FallbackReturn ==
    /\ fbpc = "loop"
    /\ ~FbRunning(fb)
    /\ fbpc' = "done"
    /\ UNCHANGED fb

---------------------------------------------------------------------------
(* The validation gate applied to a turn list.                             *)
Validate ==
    /\ ~vout.called
    /\ LET r == validate_parsed_sessions(vin)
       IN vout' = [called |-> TRUE, ok |-> r.ok, msg |-> r.msg]
    /\ UNCHANGED vin

---------------------------------------------------------------------------
(* The label generator.  The provider's text is a sequence of tokens: a    *)
(* whitespace character, one of the characters "'.,!? that strip() is      *)
(* given, one of the three prefixes in any case, or a run of n other       *)
(* characters.                                                             *)
Tok(t, n, p) == [t |-> t, n |-> n, p |-> p]
WS == Tok("ws", 1, "")
Q == Tok("punct", 1, "")
W(n) == Tok("word", n, "")
PFX(p) == Tok("prefix", 6, p)

Sentinel == <<Tok("sentinel", SentinelLen, "")>>
NoLabel == <<Tok("none", 0, "")>>
NoPrompt == [q |-> 0, a |-> 0, defined |-> FALSE]

RECURSIVE tlen(_)
tlen(s) == IF s = <<>> THEN 0 ELSE Head(s).n + tlen(Tail(s))

RECURSIVE LStrip(_, _)
LStrip(s, kind) ==
    IF s # <<>> /\ Head(s).t = kind THEN LStrip(Tail(s), kind) ELSE s
RECURSIVE RStrip(_, _)
RStrip(s, kind) ==
    IF s # <<>> /\ s[Len(s)].t = kind THEN RStrip(SubSeq(s, 1, Len(s) - 1), kind) ELSE s

\* text.strip()
StripWs(s) == RStrip(LStrip(s, "ws"), "ws")
\* label.strip('"\'.,!?')
StripChars(s) == RStrip(LStrip(s, "punct"), "punct")

\* label.lower().startswith(prefix)
StartsWith(s, p) == s # <<>> /\ Head(s).t = "prefix" /\ Head(s).p = p

\* if label.lower().startswith(prefix): label = label[len(prefix):].strip()
RemovePrefix(s, p) == IF StartsWith(s, p) THEN StripWs(Tail(s)) ELSE s

\* for prefix in ['label:', 'topic:', 'title:']: ...
RemovePrefixes(s) == RemovePrefix(RemovePrefix(RemovePrefix(s, "label:"), "topic:"), "title:")

\* label[:n]: a token cut short is a run of characters
RECURSIVE Slice(_, _)
Slice(s, n) ==
    IF s = <<>> \/ n = 0 THEN <<>>
    ELSE IF Head(s).n <= n THEN <<Head(s)>> \o Slice(Tail(s), n - Head(s).n)
    ELSE <<W(n)>>

\* if len(label) > 100: label = label[:100]
Truncate(s) == IF tlen(s) > MaxLabelLen THEN Slice(s, MaxLabelLen) ELSE s

\* The first attempt's label, lines 66-79.
CleanLabel(text) == Truncate(RemovePrefixes(StripChars(StripWs(text))))

\* The retry's label, line 100.
RetryLabel(text) == StripChars(StripWs(text))

\* q_truncated, a_truncated: the cut text and "..."
BuildPrompt(qlen, alen) ==
    [q |-> IF qlen > max_q_len THEN max_q_len + 3 ELSE qlen,
     a |-> IF alen > max_a_len THEN max_a_len + 3 ELSE alen,
     defined |-> TRUE]

\* a retry after any failure
RetryAlways(rate) == "retry"

\* a failure of the retry left to propagate
RetryFailurePropagates == "propagate"

\* except Exception as e: retry when the text of e names a rate limit,
\* otherwise fall through to the sentinel
OnFirstFailure(rate) == IF rate THEN "retry" ELSE "sentinel"

\* except: pass, then the sentinel
OnRetryFailure == "sentinel"

ProviderTexts ==
    {<<W(20)>>,
     <<WS, Q, W(20), Q, WS>>,
     <<W(100)>>, <<W(101)>>, <<W(300)>>,
     <<Q, WS, W(100)>>,
     <<PFX("label:"), WS, W(10)>>,
     <<PFX("topic:"), WS, PFX("label:"), WS, W(10)>>,
     <<PFX("title:"), WS, W(101)>>,
     <<>>, <<Q, Q>>}

\* get_client(): load_dotenv copies the file's key into os.environ; without a
\* key it raises ValueError, and the imports or the file may fail otherwise,
\* with a text that may name 429 (a path, for one).
\* model = get_client(); ...; prompt = ...
GL_Client1 ==
    /\ lpc = "client1"
    /\ envKey' = (envKey \/ fileKey)
    /\ \E fail \in {"none", "other", "other429"} :
         IF ~envKey' \/ fail # "none"
         THEN /\ lpc' = "except"
              /\ excRate' = (envKey' /\ fail = "other429")
              /\ ltrace' = ltrace \o <<"client", IF ~envKey' THEN "raise_nokey"
                                                ELSE IF fail = "other429" THEN "raise_rate"
                                                ELSE "raise_other">>
              /\ UNCHANGED prompt
         ELSE /\ lpc' = "call1"
              /\ prompt' = BuildPrompt(lin.q, lin.a)
              /\ ltrace' = Append(ltrace, "client")
              /\ UNCHANGED excRate
    /\ UNCHANGED <<fileKey, lin, label>>

\* response = model.generate_content(prompt); label = ... (lines 65-79)
GL_Call1(texts) ==
    /\ lpc = "call1"
    /\ \/ \E text \in texts :
            /\ label' = CleanLabel(text)
            /\ lpc' = "sleep1"
            /\ ltrace' = Append(ltrace, "call")
            /\ UNCHANGED excRate
       \/ \E rate \in BOOLEAN :
            /\ excRate' = rate
            /\ lpc' = "except"
            /\ ltrace' = ltrace \o <<"call", IF rate THEN "raise_rate" ELSE "raise_other">>
            /\ UNCHANGED label
    /\ UNCHANGED <<envKey, fileKey, lin, prompt>>

\* time.sleep(13); return label
GL_Sleep1 ==
    /\ lpc = "sleep1"
    /\ ltrace' = Append(ltrace, "delay")
    /\ lpc' = "returned"
    /\ UNCHANGED <<envKey, fileKey, lin, prompt, excRate, label>>

\* except Exception as e: ... (lines 87-96 and 107)
GL_Except ==
    /\ lpc = "except"
    /\ LET todo == OnFirstFailure(excRate)
       IN IF todo = "retry"
          THEN /\ ltrace' = Append(ltrace, "backoff")     \* time.sleep(20)
               /\ lpc' = "client2"
               /\ UNCHANGED label
          ELSE /\ label' = Sentinel
               /\ lpc' = "returned"
               /\ UNCHANGED ltrace
    /\ UNCHANGED <<envKey, fileKey, lin, prompt, excRate>>

\* what a failure inside the inner try does
RetryFailed ==
    IF OnRetryFailure = "sentinel"
    THEN /\ label' = Sentinel
         /\ lpc' = "returned"
    ELSE /\ lpc' = "raised"
         /\ UNCHANGED label

\* try: model = get_client() (line 98); prompt is read on line 99 and
\* raises NameError when the first get_client() never got to assign it
GL_Client2 ==
    /\ lpc = "client2"
    /\ envKey' = (envKey \/ fileKey)
    /\ \E fail \in {"none", "other"} :
         IF ~envKey' \/ fail # "none"
         THEN /\ ltrace' = ltrace \o <<"client", "raise_retry">>
              /\ RetryFailed
         ELSE IF ~prompt.defined
         THEN /\ ltrace' = ltrace \o <<"client", "raise_retry">>
              /\ RetryFailed
         ELSE /\ ltrace' = Append(ltrace, "client")
              /\ lpc' = "call2"
              /\ UNCHANGED label
    /\ UNCHANGED <<fileKey, lin, prompt, excRate>>

\* response = model.generate_content(prompt); label = ... (lines 99-100)
GL_Call2(texts) ==
    /\ lpc = "call2"
    /\ \/ \E text \in texts :
            /\ label' = RetryLabel(text)
            /\ lpc' = "sleep2"
            /\ ltrace' = Append(ltrace, "call")
       \/ /\ ltrace' = ltrace \o <<"call", "raise_retry">>
          /\ RetryFailed
    /\ UNCHANGED <<envKey, fileKey, lin, prompt, excRate>>

\* time.sleep(13); return label (lines 101-102)
GL_Sleep2 ==
    /\ lpc = "sleep2"
    /\ ltrace' = Append(ltrace, "delay")
    /\ lpc' = "returned"
    /\ UNCHANGED <<envKey, fileKey, lin, prompt, excRate, label>>

LabelIdle ==
    /\ lin = [q |-> 0, a |-> 0]
    /\ lpc = "idle"
    /\ prompt = NoPrompt
    /\ excRate = FALSE
    /\ ltrace = <<>>
    /\ label = NoLabel

ParseIdle ==
    /\ content = NoContent
    /\ entry = "parse_chat"
    /\ ppc = "idle"
    /\ stages = <<>>
    /\ sessions = <<>>
    /\ meta = NoMeta

FbIdle == fb = NoFb /\ fbpc = "idle"
ValIdle == vin = <<>> /\ vout = NoVout
EnvIdle == envKey = FALSE /\ fileKey = FALSE
RunIdle ==
    /\ rpc = "idle"
    /\ status = "uploaded"
    /\ error_message = ""
    /\ db = <<>>
    /\ idx = 0
    /\ events = <<>>
    /\ runs = 0
    /\ rlog = <<>>

NoBatch == [sessions |-> <<>>, i |-> 0, labels |-> <<>>, log |-> <<>>]
BatchIdle == batch = NoBatch /\ bpc = "idle"

NoPrev == [done |-> FALSE, sessions |-> <<>>]
ReIdle == prev = NoPrev

ConcIdle == reqs = <<>> /\ table = {} /\ inflight = {} /\ calls = <<>>

---------------------------------------------------------------------------
(* Specifications of the parts.                                            *)

\* parse_chat and parse_chat_with_metadata on every input of IsCascadeContent
InitParse ==
    /\ IsCascadeContent(content)
    /\ entry \in {"parse_chat", "parse_chat_with_metadata"}
    /\ ppc = "json"
    /\ stages = <<>>
    /\ sessions = <<>>
    /\ meta = NoMeta
    /\ envKey \in BOOLEAN
    /\ fileKey = FALSE
    /\ FbIdle /\ ValIdle /\ LabelIdle /\ RunIdle
    /\ BatchIdle /\ ReIdle /\ ConcIdle

NextParse ==
    \/ StageJson /\ UNCHANGED <<batchVars, reVars, concVars, fbVars, valVars, envVars, labelVars, runVars>>
    \/ StageAi(envKey, AiResponses) /\ UNCHANGED <<batchVars, reVars, concVars, fbVars, valVars, envVars, labelVars, runVars>>
    \/ StageFallback /\ UNCHANGED <<batchVars, reVars, concVars, fbVars, valVars, envVars, labelVars, runVars>>

SpecParse == InitParse /\ [][NextParse]_vars

\* _parse_fallback on every paragraph sequence of IsFallbackContent
InitFallback ==
    /\ IsFallbackContent(content)
    /\ entry = "parse_chat"
    /\ ppc = "idle"
    /\ stages = <<>>
    /\ sessions = <<>>
    /\ meta = NoMeta
    /\ fb = FbStart(Paragraphs(content.paras))
    /\ fbpc = "loop"
    /\ EnvIdle /\ ValIdle /\ LabelIdle /\ RunIdle
    /\ BatchIdle /\ ReIdle /\ ConcIdle

NextFallback ==
    \/ FallbackIterate /\ UNCHANGED <<batchVars, reVars, concVars, parseVars, valVars, envVars, labelVars, runVars>>
    \/ FallbackReturn /\ UNCHANGED <<batchVars, reVars, concVars, parseVars, valVars, envVars, labelVars, runVars>>

SpecFallback == InitFallback /\ [][NextFallback]_vars

\* the same, the loop never left standing: _parse_fallback is one
\* uninterrupted synchronous call
SpecFallbackLive == InitFallback /\ [][NextFallback]_vars /\ WF_vars(NextFallback)

\* validate_parsed_sessions on every turn list of up to MaxTurns turns
TurnTexts == {EmptyText, Text(0, 1, <<>>)}
TurnLists(n) ==
    {[k \in 1..n |-> ParsedSession(k, f[k][1], f[k][2])] :
        f \in [1..n -> TurnTexts \X TurnTexts]}

InitValidate ==
    /\ vin \in UNION {TurnLists(n) : n \in 0..MaxTurns}
    /\ vout = NoVout
    /\ ParseIdle /\ FbIdle /\ EnvIdle /\ LabelIdle /\ RunIdle
    /\ BatchIdle /\ ReIdle /\ ConcIdle

NextValidate == Validate /\ UNCHANGED <<batchVars, reVars, concVars, parseVars, fbVars, envVars, labelVars, runVars>>

SpecValidate == InitValidate /\ [][NextValidate]_vars

\* one generate_label call, for every argument length, key and provider
InitLabel ==
    /\ lin \in {[q |-> q, a |-> a] : q \in {10, max_q_len, max_q_len + 1},
                                   a \in {10, max_a_len, 2 * max_a_len}}
    /\ lpc = "client1"
    /\ prompt = NoPrompt
    /\ excRate = FALSE
    /\ ltrace = <<>>
    /\ label = NoLabel
    /\ envKey \in BOOLEAN
    /\ fileKey \in BOOLEAN
    /\ ParseIdle /\ FbIdle /\ ValIdle /\ RunIdle
    /\ BatchIdle /\ ReIdle /\ ConcIdle

NextLabel ==
    \/ GL_Client1 /\ UNCHANGED <<batchVars, reVars, concVars, parseVars, fbVars, valVars, runVars>>
    \/ GL_Call1(ProviderTexts) /\ UNCHANGED <<batchVars, reVars, concVars, parseVars, fbVars, valVars, runVars>>
    \/ GL_Sleep1 /\ UNCHANGED <<batchVars, reVars, concVars, parseVars, fbVars, valVars, runVars>>
    \/ GL_Except /\ UNCHANGED <<batchVars, reVars, concVars, parseVars, fbVars, valVars, runVars>>
    \/ GL_Client2 /\ UNCHANGED <<batchVars, reVars, concVars, parseVars, fbVars, valVars, runVars>>
    \/ GL_Call2(ProviderTexts) /\ UNCHANGED <<batchVars, reVars, concVars, parseVars, fbVars, valVars, runVars>>
    \/ GL_Sleep2 /\ UNCHANGED <<batchVars, reVars, concVars, parseVars, fbVars, valVars, runVars>>

SpecLabel == InitLabel /\ [][NextLabel]_vars

---------------------------------------------------------------------------
(* parse_chat called twice on the same content.  The functions keep no     *)
(* state of their own; what a second call can see differently is the       *)
(* environment: the key, and the provider's answer.                        *)

\* the first call has returned: its result is kept and the call is made again
ParseAgain ==
    /\ ppc = "returned"
    /\ ~prev.done
    /\ prev' = [done |-> TRUE, sessions |-> sessions]
    /\ envKey' \in BOOLEAN
    /\ ppc' = "json"
    /\ stages' = <<>>
    /\ sessions' = <<>>
    /\ meta' = NoMeta
    /\ UNCHANGED <<content, entry, fileKey>>

InitReparse ==
    /\ IsCascadeContent(content)
    /\ entry = "parse_chat"
    /\ ppc = "json"
    /\ stages = <<>>
    /\ sessions = <<>>
    /\ meta = NoMeta
    /\ envKey \in BOOLEAN
    /\ fileKey = FALSE
    /\ prev = NoPrev
    /\ FbIdle /\ ValIdle /\ LabelIdle /\ RunIdle
    /\ BatchIdle /\ ConcIdle

NextReparse ==
    \/ StageJson /\ UNCHANGED <<batchVars, reVars, concVars, fbVars, valVars, envVars, labelVars, runVars>>
    \/ StageAi(envKey, AiResponses) /\ UNCHANGED <<batchVars, reVars, concVars, fbVars, valVars, envVars, labelVars, runVars>>
    \/ StageFallback /\ UNCHANGED <<batchVars, reVars, concVars, fbVars, valVars, envVars, labelVars, runVars>>
    \/ ParseAgain /\ UNCHANGED <<batchVars, concVars, fbVars, valVars, labelVars, runVars>>

SpecReparse == InitReparse /\ [][NextReparse]_vars

---------------------------------------------------------------------------
(* generate_labels_batch, one generate_label call a round.                 *)

\* A list of n dicts with 'question' and 'answer' keys: the k-th question has
\* k characters more than max_q_len - 2, so that no two turns give
\* generate_label the same arguments and the later ones are cut in the prompt.
BatchSessions(n) ==
    [k \in 1..n |-> [question |-> Text(0, max_q_len - 2 + k, <<k>>),
                     answer |-> Text(0, max_a_len, <<k>>)]]

\* the call made no attempt that did not fail
AttemptsFailed(tr) ==
    Cardinality({k \in 1..Len(tr) : tr[k] \in {"raise_nokey", "raise_rate",
                                                "raise_other", "raise_retry"}})
        = Cardinality({k \in 1..Len(tr) : tr[k] = "client"})

\* for session in sessions: label = generate_label(session['question'],
\* session['answer'])
BatchCall ==
    /\ bpc = "loop"
    /\ batch.i < Len(batch.sessions)
    /\ LET session == batch.sessions[batch.i + 1]
       IN lin' = [q |-> pylen(session.question), a |-> pylen(session.answer)]
    /\ lpc' = "client1"
    /\ prompt' = NoPrompt
    /\ excRate' = FALSE
    /\ ltrace' = <<>>
    /\ label' = NoLabel
    /\ bpc' = "call"
    /\ UNCHANGED <<batch, envKey, fileKey>>

\* BatchAppend giving the batch up at the first sentinel
BatchAppendStopsOnFailure ==
    /\ bpc = "call"
    /\ lpc \in {"returned", "raised"}
    /\ lpc' = "idle"
    /\ IF lpc = "raised"
       THEN /\ bpc' = "raised"
            /\ UNCHANGED batch
       ELSE /\ bpc' = IF label = Sentinel THEN "returned" ELSE "loop"
            /\ batch' = [batch EXCEPT
                            !.labels = Append(@, label),
                            !.i = @ + 1,
                            !.log = Append(@, [turn |-> batch.i + 1, args |-> lin,
                                               failed |-> AttemptsFailed(ltrace),
                                               label |-> label])]
    /\ UNCHANGED <<envKey, fileKey, lin, prompt, excRate, ltrace, label>>

\* labels.append(label), and the loop goes on
BatchAppend ==
    /\ bpc = "call"
    /\ lpc \in {"returned", "raised"}
    /\ lpc' = "idle"
    /\ IF lpc = "raised"
       THEN /\ bpc' = "raised"
            /\ UNCHANGED batch
       ELSE /\ bpc' = "loop"
            /\ batch' = [batch EXCEPT
                            !.labels = Append(@, label),
                            !.i = @ + 1,
                            !.log = Append(@, [turn |-> batch.i + 1, args |-> lin,
                                               failed |-> AttemptsFailed(ltrace),
                                               label |-> label])]
    /\ UNCHANGED <<envKey, fileKey, lin, prompt, excRate, ltrace, label>>

\* return labels
BatchReturn ==
    /\ bpc = "loop"
    /\ batch.i = Len(batch.sessions)
    /\ bpc' = "returned"
    /\ UNCHANGED <<batch, envVars, labelVars>>

BatchTexts == {<<W(20)>>, <<PFX("label:"), WS, W(10)>>, <<Q, Q>>}

\* generate_labels_batch on every list of up to MaxBatch turns
InitBatch ==
    /\ \E n \in 0..MaxBatch : batch = [NoBatch EXCEPT !.sessions = BatchSessions(n)]
    /\ bpc = "loop"
    /\ envKey \in BOOLEAN
    /\ fileKey = FALSE
    /\ ParseIdle /\ FbIdle /\ ValIdle /\ LabelIdle /\ RunIdle
    /\ ReIdle /\ ConcIdle

NextBatch ==
    \/ BatchCall /\ UNCHANGED <<reVars, concVars, parseVars, fbVars, valVars, runVars>>
    \/ GL_Client1 /\ UNCHANGED <<batchVars, reVars, concVars, parseVars, fbVars, valVars, runVars>>
    \/ GL_Call1(BatchTexts) /\ UNCHANGED <<batchVars, reVars, concVars, parseVars, fbVars, valVars, runVars>>
    \/ GL_Sleep1 /\ UNCHANGED <<batchVars, reVars, concVars, parseVars, fbVars, valVars, runVars>>
    \/ GL_Except /\ UNCHANGED <<batchVars, reVars, concVars, parseVars, fbVars, valVars, runVars>>
    \/ GL_Client2 /\ UNCHANGED <<batchVars, reVars, concVars, parseVars, fbVars, valVars, runVars>>
    \/ GL_Call2(BatchTexts) /\ UNCHANGED <<batchVars, reVars, concVars, parseVars, fbVars, valVars, runVars>>
    \/ GL_Sleep2 /\ UNCHANGED <<batchVars, reVars, concVars, parseVars, fbVars, valVars, runVars>>
    \/ BatchAppend /\ UNCHANGED <<reVars, concVars, parseVars, fbVars, valVars, runVars>>
    \/ BatchReturn /\ UNCHANGED <<reVars, concVars, parseVars, fbVars, valVars, runVars>>

SpecBatch == InitBatch /\ [][NextBatch]_vars

---------------------------------------------------------------------------
(* The generation run: generate_index.event_stream of main/views.py, one   *)
(* step from each yield to the next, with the calls of parse_chat and      *)
(* generate_label run by the steps above.                                  *)

Row(order, question, answer, lab) ==
    [order |-> order, question |-> question, answer |-> answer, label |-> lab]

\* Session.objects.create(..., label='') for each parsed session
RECURSIVE CreateRows(_)
CreateRows(parsed) ==
    IF parsed = <<>> THEN <<>>
    ELSE <<Row(Head(parsed).order, Head(parsed).question, Head(parsed).answer, <<>>)>>
         \o CreateRows(Tail(parsed))

\* f"Session {session.order}"
OrderLabel(order) == <<Tok("order", 9, "")>>

\* document.status = 'parsing'; document.save(); yield progress
RunBegin ==
    /\ rpc = "idle"
    /\ runs < MaxRuns
    /\ runs' = runs + 1
    /\ status' = "parsing"
    /\ events' = <<"progress">>
    /\ rlog' = <<"begin">>
    /\ rpc' = "parsing"
    /\ UNCHANGED <<error_message, db, idx>>

\* RunParse with the document's rows deleted before the parse
RunParseClearsFirst ==
    /\ rpc = "parsing"
    /\ rpc' = "parse_wait"
    /\ entry' = "parse_chat"
    /\ ppc' = "json"
    /\ stages' = <<>>
    /\ sessions' = <<>>
    /\ meta' = NoMeta
    /\ rlog' = Append(rlog, "parse")
    /\ db' = <<>>
    /\ UNCHANGED <<content, status, error_message, idx, events, runs>>

\* parsed_sessions = parse_chat(document.original_content)
RunParse ==
    /\ rpc = "parsing"
    /\ rpc' = "parse_wait"
    /\ entry' = "parse_chat"
    /\ ppc' = "json"
    /\ stages' = <<>>
    /\ sessions' = <<>>
    /\ meta' = NoMeta
    /\ rlog' = Append(rlog, "parse")
    /\ UNCHANGED <<content, status, error_message, db, idx, events, runs>>

\* parse_chat raised: except Exception as e (lines 122-126)
RunParseRaised ==
    /\ rpc = "parse_wait"
    /\ ppc = "raised"
    /\ ppc' = "idle"
    /\ status' = "error"
    /\ error_message' = "exception"
    /\ events' = Append(events, "error")
    /\ rlog' = Append(rlog, "raised")
    /\ rpc' = "done"
    /\ UNCHANGED <<content, entry, stages, sessions, meta, db, idx, runs>>

\* RunValidate with a gate that reports a rejection and lets the run go on
RunValidateGoesOn ==
    /\ rpc = "parse_wait"
    /\ ppc = "returned"
    /\ ppc' = "idle"
    /\ LET r == validate_parsed_sessions(sessions)
       IN /\ status' = IF r.ok THEN status ELSE "error"
          /\ error_message' = IF r.ok THEN error_message ELSE r.msg
          /\ events' = Append(events, IF r.ok THEN "progress" ELSE "error")
          /\ rlog' = Append(rlog, IF r.ok THEN "valid" ELSE "invalid")
          /\ rpc' = "create"
    /\ UNCHANGED <<content, entry, stages, sessions, meta, db, idx, runs>>

\* is_valid, error_msg = validate_parsed_sessions(parsed_sessions) (lines 72-82)
RunValidate ==
    /\ rpc = "parse_wait"
    /\ ppc = "returned"
    /\ ppc' = "idle"
    /\ LET r == validate_parsed_sessions(sessions)
       IN IF ~r.ok
          THEN /\ status' = "error"
               /\ error_message' = r.msg
               /\ events' = Append(events, "error")
               /\ rlog' = Append(rlog, "invalid")
               /\ rpc' = "done"
          ELSE /\ events' = Append(events, "progress")
               /\ rlog' = Append(rlog, "valid")
               /\ rpc' = "create"
               /\ UNCHANGED <<status, error_message>>
    /\ UNCHANGED <<content, entry, stages, sessions, meta, db, idx, runs>>

\* document.sessions.all().delete(); create the rows; status = 'labeling';
\* the loop's first yield (lines 84-105)
RunCreate ==
    /\ rpc = "create"
    /\ db' = CreateRows(sessions)
    /\ status' = "labeling"
    /\ idx' = 1
    /\ events' = Append(events, "progress")
    /\ rlog' = rlog \o <<"delete", "create">>
    /\ rpc' = "label"
    /\ UNCHANGED <<error_message, runs>>

\* label = generate_label(session.question, session.answer)
RunLabelCall ==
    /\ rpc = "label"
    /\ rpc' = "label_wait"
    /\ lin' = [q |-> pylen(db[idx].question), a |-> pylen(db[idx].answer)]
    /\ lpc' = "client1"
    /\ prompt' = NoPrompt
    /\ excRate' = FALSE
    /\ ltrace' = <<>>
    /\ label' = NoLabel
    /\ rlog' = Append(rlog, "label")
    /\ UNCHANGED <<envKey, fileKey, status, error_message, db, idx, events, runs>>

\* session.save() of a label: a label longer than the column is stored as it
\* is by a database that does not check lengths, cut to the column by one
\* that truncates, and refused by the others
SaveOutcomes(lab) ==
    IF tlen(lab) > LabelFieldMax THEN {"stored", "cut", "refused"} ELSE {"stored"}

\* RunLabelSave ending the run after the first label
RunLabelSaveStopsEarly ==
    /\ rpc = "label_wait"
    /\ lpc \in {"returned", "raised"}
    /\ lpc' = "idle"
    /\ \E saved \in SaveOutcomes(label) :
         db' = [db EXCEPT ![idx].label =
                    IF lpc = "raised" \/ saved = "refused" THEN OrderLabel(db[idx].order)
                    ELSE IF saved = "cut" THEN Slice(label, LabelFieldMax)
                    ELSE label]
    /\ rlog' = Append(rlog, "save")
    /\ status' = "completed"
    /\ events' = Append(events, "complete")
    /\ rpc' = "done"
    /\ UNCHANGED <<envKey, fileKey, lin, prompt, excRate, ltrace, label,
                   error_message, runs, idx>>

\* RunLabelSave writing the label to every row of the document
RunLabelSaveAllRows ==
    /\ rpc = "label_wait"
    /\ lpc \in {"returned", "raised"}
    /\ lpc' = "idle"
    /\ db' = [k \in 1..Len(db) |-> [db[k] EXCEPT !.label = label]]
    /\ rlog' = Append(rlog, "save")
    /\ IF idx < Len(db)
       THEN /\ idx' = idx + 1
            /\ events' = Append(events, "progress")
            /\ rpc' = "label"
            /\ UNCHANGED status
       ELSE /\ status' = "completed"
            /\ events' = Append(events, "complete")
            /\ rpc' = "done"
            /\ UNCHANGED idx
    /\ UNCHANGED <<envKey, fileKey, lin, prompt, excRate, ltrace, label,
                   error_message, runs>>

\* session.label = label; session.save(), or the except branch's
\* f"Session {session.order}"; then the next yield, or status = 'completed'
\* and the complete event (lines 109-120)
RunLabelSave ==
    /\ rpc = "label_wait"
    /\ lpc \in {"returned", "raised"}
    /\ lpc' = "idle"
    /\ \E saved \in SaveOutcomes(label) :
         db' = [db EXCEPT ![idx].label =
                    IF lpc = "raised" \/ saved = "refused" THEN OrderLabel(db[idx].order)
                    ELSE IF saved = "cut" THEN Slice(label, LabelFieldMax)
                    ELSE label]
    /\ rlog' = Append(rlog, "save")
    /\ IF idx < Len(db)
       THEN /\ idx' = idx + 1
            /\ events' = Append(events, "progress")
            /\ rpc' = "label"
            /\ UNCHANGED status
       ELSE /\ status' = "completed"
            /\ events' = Append(events, "complete")
            /\ rpc' = "done"
            /\ UNCHANGED idx
    /\ UNCHANGED <<envKey, fileKey, lin, prompt, excRate, ltrace, label,
                   error_message, runs>>

\* the generator is exhausted and the response ends
RunEnd ==
    /\ rpc = "done"
    /\ rpc' = "idle"
    /\ UNCHANGED <<status, error_message, db, idx, events, runs, rlog>>

\* The documents of the runs: two well-formed entries, a dropped entry before
\* a well-formed one, an empty array, an array of a number, and plain text
\* with and without a pair the fallback accepts.
OneLine == <<Para(1, 0, 50)>>
RunContents ==
    {ListContent(<<Good(1), Good(2)>>, OneLine),
     ListContent(<<Dropped(1), Good(2)>>, OneLine),
     ListContent(<<>>, OneLine),
     ListContent(<<NotObject>>, OneLine),
     TextContent("text", <<Para(1, 0, 50), Para(2, 0, 301)>>, 1),
     TextContent("text", OneLine, 1)}

RunAiResponses == {[error |-> TRUE, items |-> <<>>], [error |-> FALSE, items |-> <<Good(1)>>]}
RunTexts == {<<W(20)>>, <<W(LabelFieldMax + 1)>>, <<>>}

Init ==
    /\ content \in RunContents
    /\ entry = "parse_chat"
    /\ ppc = "idle"
    /\ stages = <<>>
    /\ sessions = <<>>
    /\ meta = NoMeta
    /\ envKey \in BOOLEAN
    /\ fileKey \in BOOLEAN
    /\ FbIdle /\ ValIdle /\ LabelIdle /\ RunIdle
    /\ BatchIdle /\ ReIdle /\ ConcIdle

Next ==
    \/ RunBegin /\ UNCHANGED <<batchVars, reVars, concVars, parseVars, fbVars, valVars, envVars, labelVars>>
    \/ RunParse /\ UNCHANGED <<batchVars, reVars, concVars, fbVars, valVars, envVars, labelVars>>
    \/ StageJson /\ UNCHANGED <<batchVars, reVars, concVars, fbVars, valVars, envVars, labelVars, runVars>>
    \/ StageAi(envKey, RunAiResponses) /\ UNCHANGED <<batchVars, reVars, concVars, fbVars, valVars, envVars, labelVars, runVars>>
    \/ StageFallback /\ UNCHANGED <<batchVars, reVars, concVars, fbVars, valVars, envVars, labelVars, runVars>>
    \/ RunParseRaised /\ UNCHANGED <<batchVars, reVars, concVars, fbVars, valVars, envVars, labelVars>>
    \/ RunValidate /\ UNCHANGED <<batchVars, reVars, concVars, fbVars, valVars, envVars, labelVars>>
    \/ RunCreate /\ UNCHANGED <<batchVars, reVars, concVars, parseVars, fbVars, valVars, envVars, labelVars>>
    \/ RunLabelCall /\ UNCHANGED <<batchVars, reVars, concVars, parseVars, fbVars, valVars>>
    \/ GL_Client1 /\ UNCHANGED <<batchVars, reVars, concVars, parseVars, fbVars, valVars, runVars>>
    \/ GL_Call1(RunTexts) /\ UNCHANGED <<batchVars, reVars, concVars, parseVars, fbVars, valVars, runVars>>
    \/ GL_Sleep1 /\ UNCHANGED <<batchVars, reVars, concVars, parseVars, fbVars, valVars, runVars>>
    \/ GL_Except /\ UNCHANGED <<batchVars, reVars, concVars, parseVars, fbVars, valVars, runVars>>
    \/ GL_Client2 /\ UNCHANGED <<batchVars, reVars, concVars, parseVars, fbVars, valVars, runVars>>
    \/ GL_Call2(RunTexts) /\ UNCHANGED <<batchVars, reVars, concVars, parseVars, fbVars, valVars, runVars>>
    \/ GL_Sleep2 /\ UNCHANGED <<batchVars, reVars, concVars, parseVars, fbVars, valVars, runVars>>
    \/ RunLabelSave /\ UNCHANGED <<batchVars, reVars, concVars, parseVars, fbVars, valVars>>
    \/ RunEnd /\ UNCHANGED <<batchVars, reVars, concVars, parseVars, fbVars, valVars, envVars, labelVars>>

Spec == Init /\ [][Next]_vars

---------------------------------------------------------------------------
(* Requests for the index of one document served at the same time.  The    *)
(* view holds no lock and keeps no record of a run in progress: each       *)
(* request loads its own copy of the document and drives its own           *)
(* generator.  A request's code between two of its yields is one step      *)
(* here, and so is a generate_label call from its provider call to its     *)
(* return; steps of different requests interleave.                         *)

Requests == 1..MaxRequests

\* parse_chat as one function of the content, the key and the provider's
\* answer to the AI stage
ParseChat(c, key, resp) ==
    LET result == _parse_json_format(c)
    IN IF result.raised THEN [raised |-> TRUE, sessions |-> <<>>]
       ELSE IF ~result.none THEN [raised |-> FALSE, sessions |-> result.sessions]
       ELSE LET s == _parse_with_ai(key, resp)
            IN [raised |-> FALSE,
                sessions |-> IF s # <<>> THEN s ELSE _parse_fallback(c)]

NoReq == [pc |-> "idle", doc |-> [status |-> "uploaded", error_message |-> ""],
          parsed |-> <<>>, objs |-> <<>>, i |-> 0, events |-> <<>>]

\* Session.objects.create(...): the row and the object kept in session_objects
NewSession(r, k, parsed) ==
    [pk |-> <<r, k>>, order |-> parsed.order, question |-> parsed.question,
     answer |-> parsed.answer, label |-> <<>>]

\* document.save() writes the request's copy of the document
SaveDocument(d) ==
    /\ status' = d.status
    /\ error_message' = d.error_message

\* except Exception as e (lines 122-126)
Fail(q, msg) ==
    [q EXCEPT !.doc = [status |-> "error", error_message |-> msg],
              !.events = Append(@, "error"),
              !.pc = "done"]

\* document = get_object_or_404(ChatDocument, id=document_id)
CRequest(r) ==
    /\ reqs[r].pc = "idle"
    /\ reqs' = [reqs EXCEPT ![r].doc = [status |-> status, error_message |-> error_message],
                            ![r].pc = "start"]
    /\ UNCHANGED <<status, error_message, table, inflight, calls>>

\* document.status = 'parsing'; document.save(); yield progress
CBegin(r) ==
    /\ reqs[r].pc = "start"
    /\ LET q == [reqs[r] EXCEPT !.doc.status = "parsing",
                                !.events = <<"progress">>,
                                !.pc = "parsing"]
       IN /\ reqs' = [reqs EXCEPT ![r] = q]
          /\ SaveDocument(q.doc)
    /\ UNCHANGED <<table, inflight, calls>>

\* parse_chat, validate_parsed_sessions and the yield that follows (lines 69-82)
CParse(r) ==
    /\ reqs[r].pc = "parsing"
    /\ \E resp \in RunAiResponses :
         LET p == ParseChat(content, envKey, resp)
             v == validate_parsed_sessions(p.sessions)
         IN IF p.raised \/ ~v.ok
            THEN LET q == Fail(reqs[r], IF p.raised THEN "exception" ELSE v.msg)
                 IN /\ reqs' = [reqs EXCEPT ![r] = q]
                    /\ SaveDocument(q.doc)
            ELSE /\ reqs' = [reqs EXCEPT ![r].parsed = p.sessions,
                                         ![r].events = Append(@, "progress"),
                                         ![r].pc = "create"]
                 /\ UNCHANGED <<status, error_message>>
    /\ UNCHANGED <<table, inflight, calls>>

\* document.sessions.all().delete(); the rows created; status = 'labeling';
\* the loop's first yield (lines 84-105)
CCreate(r) ==
    /\ reqs[r].pc = "create"
    /\ LET created == [k \in 1..Len(reqs[r].parsed) |-> NewSession(r, k, reqs[r].parsed[k])]
           q == [reqs[r] EXCEPT !.objs = created,
                                !.doc.status = "labeling",
                                !.i = 1,
                                !.events = Append(@, "progress"),
                                !.pc = "label"]
       IN /\ table' = {created[k] : k \in 1..Len(created)}
          /\ reqs' = [reqs EXCEPT ![r] = q]
          /\ SaveDocument(q.doc)
    /\ UNCHANGED <<inflight, calls>>

\* generate_label(session.question, session.answer) up to its provider call:
\* without a key get_client raises and no call is made
CLabelCall(r) ==
    /\ reqs[r].pc = "label"
    /\ reqs' = [reqs EXCEPT ![r].pc = "label_wait"]
    /\ LET call == [req |-> r, order |-> reqs[r].objs[reqs[r].i].order]
       IN IF envKey \/ fileKey
          THEN /\ inflight' = inflight \cup {call}
               /\ calls' = Append(calls, call)
          ELSE UNCHANGED <<inflight, calls>>
    /\ UNCHANGED <<status, error_message, table>>

\* what generate_label may return
ConcLabels == IF envKey \/ fileKey THEN {CleanLabel(<<W(20)>>), Sentinel} ELSE {Sentinel}

\* session.save(): an UPDATE of the row with the object's key, or, when the
\* row is gone, an INSERT, which unique_together refuses when another row
\* of the document has the order
SaveSession(obj) ==
    IF \E row \in table : row.pk = obj.pk
    THEN [ok |-> TRUE, table |-> {row \in table : row.pk # obj.pk} \cup {obj}]
    ELSE IF \E row \in table : row.order = obj.order
    THEN [ok |-> FALSE, table |-> table]
    ELSE [ok |-> TRUE, table |-> table \cup {obj}]

\* the return of generate_label; session.label = label; session.save(); the
\* except branch when the save fails, whose own save fails the same way and
\* ends the run in the outer except; then the next yield, or status =
\* 'completed' and the complete event (lines 108-126)
CLabelReturn(r) ==
    /\ reqs[r].pc = "label_wait"
    /\ inflight' = {c \in inflight : c.req # r}
    /\ \E lab \in ConcLabels :
         LET i == reqs[r].i
             obj == [reqs[r].objs[i] EXCEPT !.label = lab]
             saved == SaveSession(obj)
         IN IF ~saved.ok
            THEN LET q == Fail([reqs[r] EXCEPT !.objs[i].label = OrderLabel(obj.order)],
                               "exception")
                 IN /\ reqs' = [reqs EXCEPT ![r] = q]
                    /\ SaveDocument(q.doc)
                    /\ UNCHANGED table
            ELSE /\ table' = saved.table
                 /\ IF i < Len(reqs[r].objs)
                    THEN /\ reqs' = [reqs EXCEPT ![r].objs[i] = obj,
                                                 ![r].i = i + 1,
                                                 ![r].events = Append(@, "progress")]
                         /\ UNCHANGED <<status, error_message>>
                    ELSE LET q == [reqs[r] EXCEPT !.objs[i] = obj,
                                                 !.doc.status = "completed",
                                                 !.events = Append(@, "complete"),
                                                 !.pc = "done"]
                         IN /\ reqs' = [reqs EXCEPT ![r] = q]
                            /\ SaveDocument(q.doc)
    /\ UNCHANGED calls

\* The documents requested: two well-formed entries, and an empty array.
ConcContents ==
    {ListContent(<<Good(1), Good(2)>>, OneLine), ListContent(<<>>, OneLine)}

InitConcurrent ==
    /\ content \in ConcContents
    /\ entry = "parse_chat"
    /\ ppc = "idle"
    /\ stages = <<>>
    /\ sessions = <<>>
    /\ meta = NoMeta
    /\ envKey \in BOOLEAN
    /\ fileKey = FALSE
    /\ reqs = [r \in Requests |-> NoReq]
    /\ table = {}
    /\ inflight = {}
    /\ calls = <<>>
    /\ FbIdle /\ ValIdle /\ LabelIdle /\ RunIdle
    /\ BatchIdle /\ ReIdle

concFrame == <<parseVars, fbVars, valVars, envVars, labelVars, batchVars, reVars,
               rpc, db, idx, events, runs, rlog>>

NextConcurrent ==
    \/ \E r \in Requests : CRequest(r) /\ UNCHANGED concFrame
    \/ \E r \in Requests : CBegin(r) /\ UNCHANGED concFrame
    \/ \E r \in Requests : CParse(r) /\ UNCHANGED concFrame
    \/ \E r \in Requests : CCreate(r) /\ UNCHANGED concFrame
    \/ \E r \in Requests : CLabelCall(r) /\ UNCHANGED concFrame
    \/ \E r \in Requests : CLabelReturn(r) /\ UNCHANGED concFrame

SpecConcurrent == InitConcurrent /\ [][NextConcurrent]_vars

---------------------------------------------------------------------------
(* Properties.                                                             *)

Count(tr, e) == Cardinality({k \in 1..Len(tr) : tr[k] = e})
RaiseEvents == {"raise_nokey", "raise_rate", "raise_other", "raise_retry"}
Raises(tr) == Cardinality({k \in 1..Len(tr) : tr[k] \in RaiseEvents})

\* C1: the turns a parse returns carry the order values 1..N in list order,
\* without gaps or duplicates, also when structured elements were dropped.
C1_OrdersSequential ==
    ppc = "returned" => \A k \in 1..Len(sessions) : sessions[k].order = k

\* C2: parse_chat and parse_chat_with_metadata never raise, whatever shape
\* the decoded structured data has.
C2_ParseNeverRaises == ppc # "raised"

\* C3: the cascade stops at a stage only when that stage produced a non-empty
\* turn list: an empty list is returned only after every stage has run.
C3_StopsOnlyWhenNonEmpty ==
    (ppc = "returned" /\ sessions = <<>>) => stages = <<"json", "ai", "fallback">>

\* C4: for input that is not structured and holds asker markers, the parse
\* returns one turn per asker-marker match with non-empty question text
\* (stated where no API key is set, so that the input alone decides the
\* result).
C4_OneTurnPerAsker ==
    (ppc = "returned" /\ ~envKey /\ content.shape \in {"text", "badjson"}
        /\ content.askers > 0)
        => Len(sessions) = content.askers

C6_ValidationGate ==
    vout.called =>
        LET allEmpty == \A k \in 1..Len(vin) : vin[k].question = EmptyText
        IN /\ vin = <<>> => ~vout.ok /\ vout.msg = "No Q&A sessions found"
           /\ (vin # <<>> /\ allEmpty) => ~vout.ok /\ vout.msg = "All questions are empty"
           /\ (vin # <<>> /\ ~allEmpty) => vout.ok /\ vout.msg = ""

\* C6's case: a list accepted with every answer empty and one question empty.
C6_Witness ==
    /\ vout.called
    /\ vout.ok
    /\ Len(vin) >= 2
    /\ \A k \in 1..Len(vin) : vin[k].answer = EmptyText
    /\ \E k \in 1..Len(vin) : vin[k].question = EmptyText

\* C7: the label generate_label returns has at most 100 characters on every
\* path.
C7_LabelAtMost100 == lpc = "returned" => tlen(label) <= 100

\* C8: generate_label never lets a failure out, and when its only attempt
\* failed, or its first attempt and its retry both failed, it returns the
\* sentinel.
C8_SentinelOnFailure ==
    /\ lpc # "raised"
    /\ (lpc = "returned" /\ Raises(ltrace) = Count(ltrace, "client")) => label = Sentinel

\* C8's case: the first attempt and the retry both failed.
C8_Witness ==
    /\ lpc = "returned"
    /\ Raises(ltrace) = 2
    /\ label = Sentinel

\* C9: at most two provider calls and two attempts; a second attempt starts
\* only right after the backoff that follows a rate-limit failure of the
\* first; there is one backoff at most; nothing follows a failure that is
\* not a rate-limit failure of the first attempt.
C9_AtMostOneRetry ==
    /\ Count(ltrace, "call") <= 2
    /\ Count(ltrace, "client") <= 2
    /\ Count(ltrace, "backoff") <= 1
    /\ \A k \in 2..Len(ltrace) :
         ltrace[k] = "client" =>
            /\ k >= 3
            /\ ltrace[k - 1] = "backoff"
            /\ ltrace[k - 2] = "raise_rate"
    /\ \A k \in 1..Len(ltrace) :
         ltrace[k] \in {"raise_nokey", "raise_other", "raise_retry"} => k = Len(ltrace)
    /\ \A k \in 1..Len(ltrace) :
         ltrace[k] = "raise_retry" => (lpc = "returned" /\ label = Sentinel)

\* C9's case: the retry was made and its call answered.
C9_Witness ==
    /\ lpc = "returned"
    /\ Count(ltrace, "call") = 2
    /\ Count(ltrace, "backoff") = 1
    /\ label # Sentinel

\* C10: with no API key configured the labeling phase is given up at once:
\* labeling does not go on turn by turn with sentinel labels and the
\* document does not end in the 'completed' state.
C10_MissingKeyIsFatal ==
    (~envKey /\ ~fileKey) => status # "completed"

\* C11: generate_labels_batch labels the turns one after the other in input
\* order, each with its own question and answer; the k-th label is what the
\* k-th call returned, the sentinel when that call's attempts failed; a
\* failure stops nothing, and the list returned has one label per turn.
C11_BatchLabelsInOrder ==
    /\ bpc # "raised"
    /\ Len(batch.labels) = batch.i
    /\ Len(batch.log) = batch.i
    /\ \A k \in 1..Len(batch.log) :
         /\ batch.log[k].turn = k
         /\ batch.log[k].args = [q |-> pylen(batch.sessions[k].question),
                                 a |-> pylen(batch.sessions[k].answer)]
         /\ batch.labels[k] = batch.log[k].label
         /\ batch.log[k].failed => batch.labels[k] = Sentinel
    /\ bpc = "returned" => Len(batch.labels) = Len(batch.sessions)

\* C11's case: a batch returned whose first call failed and whose later
\* calls answered.
C11_Witness ==
    /\ bpc = "returned"
    /\ Len(batch.sessions) >= 2
    /\ batch.log[1].failed
    /\ batch.labels[1] = Sentinel
    /\ \A k \in 2..Len(batch.labels) : ~batch.log[k].failed /\ batch.labels[k] # Sentinel

\* C12: a document never has two provider label calls in flight at once, and
\* its label calls form one sequence in turn order: the calls of a request
\* follow the turns' order and no call of another request comes between two
\* of them, also when the endpoint is requested again while a request for
\* the document is being served.
C12_NoConcurrentLabelCalls ==
    /\ Cardinality(inflight) <= 1
    /\ \A a, b \in 1..Len(calls) :
         (a < b /\ calls[a].req = calls[b].req) =>
            /\ calls[a].order < calls[b].order
            /\ \A c \in a..b : calls[c].req = calls[a].req

\* the positions of a step in the run's log
Steps(step) == {k \in 1..Len(rlog) : rlog[k] = step}

\* C13: a run whose parse output the validation gate rejects sets the status
\* to 'error' with the gate's message and ends: it creates no turn, calls
\* generate_label for none and never has the status 'labeling' or
\* 'completed'.  And a run calls generate_label only after its parse and
\* its validation are done.
C13_ParseFailureIsTerminal ==
    /\ Steps("invalid") # {} =>
         /\ status = "error"
         /\ error_message = validate_parsed_sessions(sessions).msg
         /\ error_message \in {"No Q&A sessions found", "All questions are empty"}
         /\ rpc \in {"done", "idle"}
         /\ lpc = "idle"
         /\ Steps("delete") = {} /\ Steps("create") = {} /\ Steps("label") = {}
         /\ rlog[Len(rlog)] = "invalid"
    /\ \A k \in Steps("label") :
         \E j \in Steps("valid") : \E i \in Steps("parse") : i < j /\ j < k
    /\ lpc # "idle" => Steps("label") # {}

\* C13's case: the second run of a document, ended by the gate's rejection.
C13_Witness ==
    /\ rpc = "done"
    /\ rlog = <<"begin", "parse", "invalid">>
    /\ status = "error"
    /\ runs = 2

\* C14: a second parse of the same content returns the turn list the first
\* returned, whatever the key and the provider do.
C14_ParseIdempotent ==
    (prev.done /\ ppc = "returned") => sessions = prev.sessions

\* C15: parse_chat_with_metadata returns the input's title and platform
\* when the structured pre-parser returned at least one turn, and '' and
\* 'unknown' when the result comes from a later stage, also for an object
\* with a title whose elements were all dropped.
C15_MetadataFromStructuredStage ==
    (ppc = "returned" /\ entry = "parse_chat_with_metadata") =>
        /\ (stages = <<"json">> /\ sessions # <<>>) =>
                meta = [title |-> content.title, platform |-> content.platform]
        /\ stages # <<"json">> => meta = [title |-> "", platform |-> "unknown"]

\* C15's case: the turns of an object with a title, one element dropped.
C15_Witness ==
    /\ ppc = "returned"
    /\ entry = "parse_chat_with_metadata"
    /\ stages = <<"json">>
    /\ content.shape = "dict"
    /\ sessions # <<>>
    /\ Len(sessions) < Len(content.items)
    /\ meta = [title |-> "My chat", platform |-> "claude"]

\* C16: a label that comes from a provider call that answered, the first or
\* the retry, does not begin with 'label:', 'topic:' or 'title:' in any
\* case, whatever prefixes the provider's text begins with and in whatever
\* order.
C16_NoLeadingPrefix ==
    (lpc = "returned" /\ label # Sentinel) =>
        \A p \in {"label:", "topic:", "title:"} : ~StartsWith(label, p)

\* C17: a step of the labeling phase leaves the number of rows, every row's
\* order, question and answer, and the label of every row but the one being
\* labeled as they are, whether the label call answered or failed.
C17_LabelStepFrame ==
    [][(rpc \in {"label", "label_wait"}) =>
         /\ Len(db') = Len(db)
         /\ \A k \in 1..Len(db) :
              /\ db'[k].order = db[k].order
              /\ db'[k].question = db[k].question
              /\ db'[k].answer = db[k].answer
              /\ (k # idx => db'[k].label = db[k].label)]_vars

\* C17's case: the first of two turns got the sentinel and the second is
\* being labeled with its row as created.
C17_Witness ==
    /\ status = "labeling"
    /\ rpc = "label_wait"
    /\ idx = 2
    /\ db[1].label = Sentinel
    /\ db[2].label = <<>>
    /\ db[1].order # db[2].order

\* C18: in a run the status goes from 'parsing' to 'error', or from
\* 'parsing' to 'labeling' and from there to 'completed' or 'error', and in
\* no other way; a run at its end has the status 'completed' or 'error'
\* and has yielded one terminal event, its last, of the same kind; and the
\* status is 'completed' only when generate_label was called and its label
\* saved for every row the run created.
C18_StatusPath ==
    /\ [][status' # status =>
            \/ rpc = "idle" /\ status' = "parsing"
            \/ <<status, status'>> \in {<<"parsing", "error">>, <<"parsing", "labeling">>,
                                        <<"labeling", "completed">>, <<"labeling", "error">>}]_vars
    /\ [](rpc \in {"parsing", "parse_wait", "create", "label", "label_wait"} =>
            \A k \in 1..Len(events) : events[k] = "progress")
    /\ [](rpc = "done" =>
            /\ status \in {"completed", "error"}
            /\ events[Len(events)] = (IF status = "completed" THEN "complete" ELSE "error")
            /\ \A k \in 1..(Len(events) - 1) : events[k] = "progress")
    /\ [](status = "completed" =>
            /\ Steps("create") # {}
            /\ Cardinality(Steps("label")) = Len(db)
            /\ Cardinality(Steps("save")) = Len(db)
            /\ rlog[Len(rlog)] = "save")

\* C18's case: the second run of a document of two turns, completed.
C18_Witness ==
    /\ rpc = "done"
    /\ runs = 2
    /\ status = "completed"
    /\ Len(db) = 2
    /\ events = <<"progress", "progress", "progress", "progress", "complete">>

\* C19: when a run has left the document 'completed', every row of the
\* document has a label that is not empty, so that labeled_count equals
\* session_count, whatever the provider answered.
C19_CompletedMeansAllLabeled ==
    status = "completed" =>
        Cardinality({k \in 1..Len(db) : db[k].label # <<>>}) = Len(db)

\* C20: the rows of a document and their labels change only in a run whose
\* parse output has passed validation: a run the gate rejects, or whose
\* parse raises, leaves the rows of the earlier run as they were.
C20_RowsKeptUntilValid ==
    [][db' # db =>
         \E j \in 2..Len(rlog') : rlog'[j] = "valid" /\ rlog'[j - 1] = "parse"]_vars

\* C20's case: a run rejected by the gate, with the rows of an earlier run
\* and their labels in place.
C20_Witness ==
    /\ rpc = "done"
    /\ rlog[Len(rlog)] = "invalid"
    /\ db # <<>>
    /\ \A k \in 1..Len(db) : db[k].label # <<>>

\* the positions in the source of the pieces a text is made of
Pieces(t) == {t.src[k] : k \in 1..Len(t.src)}

\* the paragraphs a turn uses
Used(s) == Pieces(s.question) \cup Pieces(s.answer)

\* C21: _parse_fallback terminates on every paragraph sequence: each
\* iteration of its loop moves i forward and the loop is left.  A paragraph
\* is used by one turn at most, once, as its question or in its answer, the
\* answer's paragraphs following the question's in the source; and the
\* question of a turn comes after every paragraph the turn before it uses.
C21_FallbackTerminatesInOrder ==
    /\ <>(fbpc = "done")
    /\ [][fb' # fb => (fb'.i > fb.i /\ fb'.i <= Len(fb.paras))]_vars
    /\ [](LET S == fb.sessions
              P == fb.paras
          IN /\ \A k \in 1..Len(S) :
                  /\ Used(S[k]) \subseteq {P[n].src[1] : n \in 1..Len(P)}
                  /\ Len(S[k].question.src) = 1
                  /\ Cardinality(Pieces(S[k].answer)) = Len(S[k].answer.src)
                  /\ \A a \in Pieces(S[k].answer) : a > S[k].question.src[1]
             /\ \A k, m \in 1..Len(S) : k # m => Used(S[k]) \cap Used(S[m]) = {}
             /\ \A k \in 1..(Len(S) - 1) :
                  \A u \in Used(S[k]) : S[k + 1].question.src[1] > u)

\* C21's case: the loop left with two turns, the second beginning after the
\* first one's answer.
C21_Witness ==
    /\ fbpc = "done"
    /\ Len(fb.sessions) = 2
    /\ Len(fb.paras) = 4
    /\ fb.sessions[1].answer.src = <<2>>
    /\ fb.sessions[2].question.src = <<3>>

====
